---- MODULE Spec2Model ----
(***************************************************************************)
(* image2csv: OCR extraction -> line formatting -> vendor parsing ->       *)
(* tabular export.                                                         *)
(*                                                                         *)
(* Text is modelled as a sequence of one-character strings, so that the    *)
(* places where the code iterates a str character by character are         *)
(* visible.  Python's 0-based list indices are shifted to TLA+'s 1-based   *)
(* sequence indices; 0 stands for the `None` index.                        *)
(***************************************************************************)
EXTENDS Integers, Sequences, FiniteSets, TLC

VARIABLES
    fcfg,       \* BasicLinesFormatter instance fields (format.py __init__)
    ftext,      \* the text handed to BasicLinesFormatter.format
    fout,       \* what format returned: [done, lines]
    paths,      \* extract_text_from_images: the image paths of the batch
    max_workers,\* OCRExtractor.max_workers, the size of the pool
    pc,         \* where the calling thread is in extract_text_from_images
    fut,        \* the futures executor.map created, by position
    finished,   \* the positions in the order their OCR calls ended
    collected,  \* the results list(...) has consumed so far
    ret,        \* what the caller of extract_text_from_images observes
    parsers,    \* the parser instances: [made, cls, images_path] by identity
    images_cache,       \* the lru_cache(maxsize=1) of BaseParser.images
    input_text_cache,   \* the lru_cache(maxsize=1) of BaseParser.input_text
    parsed_text_cache,  \* the lru_cache(maxsize=1) of BaseParser.parsed_text
    runs,       \* per instance, how often each property's body has run
    outcome,    \* what the caller of the last operation observed
    output,     \* the CSV file at output_path
    cli,        \* what the last run of `convert` printed, and its exit code
    arg_lines,  \* the lines handed to a direct call of parse_text_lines
    parse_ret   \* that call: [done, cls, groups, records]

fvars == <<fcfg, ftext, fout>>

pvars == <<paths, max_workers, pc, fut, finished, collected, ret>>

mvars == <<parsers, images_cache, input_text_cache, parsed_text_cache, runs,
           outcome, output, cli>>

xvars == <<arg_lines, parse_ret>>

vars == <<fvars, pvars, mvars, xvars>>

(***************************************************************************)
(* str helpers                                                             *)
(***************************************************************************)
NL == "\n"

Drop(s, n) == SubSeq(s, n + 1, Len(s))

\* a list built by a comprehension, as a sequence
AsList(f) == f \o <<>>

\* Body applied to a value that is computed once
Once(value, Body(_)) == CHOOSE out \in {Body(v) : v \in {value}} : TRUE

Take(s, n) == SubSeq(s, 1, n)

\* str.startswith
StartsWith(s, p) == Len(p) <= Len(s) /\ Take(s, Len(p)) = p

SetMin(S) == CHOOSE x \in S : \A y \in S : x <= y

SetMax(S) == 0 - SetMin({0 - x : x \in S})

RECURSIVE FlattenRange(_, _, _)
FlattenRange(seqs, lo, hi) ==
    IF lo > hi THEN <<>>
    ELSE IF lo = hi THEN seqs[lo]
    ELSE LET mid == (lo + hi) \div 2
         IN  FlattenRange(seqs, lo, mid) \o FlattenRange(seqs, mid + 1, hi)

\* itertools.chain(*seqs) collected into a list
Flatten(seqs) == Once(AsList(seqs), LAMBDA lists : FlattenRange(lists, 1, Len(lists)))

\* where k occurs in s
Occurrences(s, k) == {i \in 1..(Len(s) - Len(k) + 1) : SubSeq(s, i, i + Len(k) - 1) = k}

RECURSIVE StrReplace(_, _, _)
\* str.replace(k, v) for a non-empty k: all non-overlapping occurrences,
\* scanned left to right
StrReplace(s, k, v) ==
    IF Occurrences(s, k) = {} THEN s
    ELSE LET at == SetMin(Occurrences(s, k))
         IN  Take(s, at - 1) \o v \o StrReplace(Drop(s, at + Len(k) - 1), k, v)

RECURSIVE StrSplit(_, _)
\* str.split(sep) for a non-empty sep: empty pieces are kept
StrSplit(s, sep) ==
    IF Occurrences(s, sep) = {} THEN <<s>>
    ELSE LET at == SetMin(Occurrences(s, sep))
         IN  <<Take(s, at - 1)>> \o StrSplit(Drop(s, at + Len(sep) - 1), sep)

\* sep.join(parts)
StrJoin(sep, parts) ==
    Flatten([i \in 1..Len(parts) |-> IF i = 1 THEN parts[i] ELSE sep \o parts[i]])

(***************************************************************************)
(* format.py: BasicLinesFormatter                                          *)
(*                                                                         *)
(* A formatter is a record cfg with the fields of __init__.  An anchor     *)
(* pattern is a literal text with an optional leading "^" (the two         *)
(* patterns the package uses, "^Extrato" and "^Acessar", have this shape); *)
(* <<>> stands for a falsy pattern (None or ""), <<>> as split_char for    *)
(* None, and replace_occurrences is the dict as its ordered item list.     *)
(***************************************************************************)

\* re.match(pattern, line): a match anchored at the start of the line
ReMatch(pattern, line) ==
    LET lit == IF pattern # <<>> /\ Head(pattern) = "^" THEN Tail(pattern) ELSE pattern
    IN  StartsWith(line, lit)

\* re.compile(r"\n+").sub(r"\n", text): a newline that follows a newline goes
CollapseNewlines(text) ==
    Flatten([i \in 1..Len(text) |->
               IF i > 1 /\ text[i] = NL /\ text[i - 1] = NL THEN <<>> ELSE <<text[i]>>])

\* the index comp picks among the matching lines, 0 when none matches
get_index_matchAlwaysMax(pattern, lines, comp) ==
    LET matches == {i \in 1..Len(lines) : ReMatch(pattern, lines[i])}
    IN  IF matches # {} THEN SetMax(matches) ELSE 0

get_index_match(pattern, lines, comp) ==
    LET matches == {i \in 1..Len(lines) : ReMatch(pattern, lines[i])}
    IN  IF matches # {}
        THEN (IF comp = "min" THEN SetMin(matches) ELSE SetMax(matches))
        ELSE 0

SplitLines(cfg, text) ==
    LET t == IF cfg.remove_multiple_newlines THEN CollapseNewlines(text) ELSE text
    IN  IF cfg.split_char = <<>> THEN <<t>> ELSE StrSplit(t, cfg.split_char)

RemoveBefore(cfg, lines) ==
    IF cfg.remove_before_match # <<>>
    THEN LET ix_begin == get_index_match(cfg.remove_before_match, lines, "min")
         IN  IF ix_begin # 0 THEN Drop(lines, ix_begin) ELSE lines
    ELSE lines

RemoveAfterKeepsMatch(cfg, lines) ==
    IF cfg.remove_after_match # <<>>
    THEN LET ix_end == get_index_match(cfg.remove_after_match, lines, "max")
         IN  IF ix_end # 0 THEN Take(lines, ix_end) ELSE lines
    ELSE lines

RemoveAfter(cfg, lines) ==
    IF cfg.remove_after_match # <<>>
    THEN LET ix_end == get_index_match(cfg.remove_after_match, lines, "max")
         IN  IF ix_end # 0 THEN Take(lines, ix_end - 1) ELSE lines
    ELSE lines

LongEnough(cfg, line) == Len(line) >= cfg.min_chars

MinCharsFilterKeepsAll(cfg, lines) == lines

MinCharsFilter(cfg, lines) == SelectSeq(lines, LAMBDA line : LongEnough(cfg, line))

RECURSIVE ReplaceRow(_, _)
\* for k, v in replace_occurrences.items(): row = row.replace(k, v)
ReplaceRow(items, row) ==
    IF items = <<>> THEN row
    ELSE ReplaceRow(Tail(items), StrReplace(row, items[1][1], items[1][2]))

ReplaceOccurrences(cfg, lines) ==
    IF cfg.replace_occurrences # <<>>
    THEN AsList([i \in 1..Len(lines) |-> ReplaceRow(cfg.replace_occurrences, lines[i])])
    ELSE lines

Format(cfg, text) ==
    ReplaceOccurrences(cfg,
        MinCharsFilter(cfg,
            RemoveAfter(cfg,
                RemoveBefore(cfg, SplitLines(cfg, text)))))

(***************************************************************************)
(* Python `re`, as far as the vendor grammars use it: a pattern is a       *)
(* sequence of items, each a character class with a greedy repetition      *)
(* count min..max (max = -1: unbounded).  MatchItems is the backtracking   *)
(* matcher: an item takes the longest run that lets the rest match.        *)
(***************************************************************************)
Digits == {"0", "1", "2", "3", "4", "5", "6", "7", "8", "9"}

\* \s for the characters that occur in OCR text
Whitespace == {" ", NL, "\t", "\r"}

InClass(c, item) ==
    CASE item.cls = "dot"      -> c # NL
      [] item.cls = "digit"    -> c \in Digits
      [] item.cls = "space"    -> c \in Whitespace
      [] item.cls = "set"      -> c \in item.chars
      [] item.cls = "dotdigit" -> c = "." \/ c \in Digits

\* a character class repeated min..max times, greedily
Item(cls, min, max) == [cls |-> cls, str |-> <<>>, chars |-> {}, min |-> min, max |-> max]

\* a literal text
Lit(str) == [cls |-> "lit", str |-> str, chars |-> {}, min |-> 1, max |-> 1]

\* an optional literal text: str?
Opt(str) == [cls |-> "lit", str |-> str, chars |-> {}, min |-> 0, max |-> 1]

OneOf(S) == [cls |-> "set", str |-> <<>>, chars |-> S, min |-> 1, max |-> 1]

\* whether the literal str stands in the text right after position pos
LitAt(text, pos, str) ==
    /\ pos + Len(str) <= Len(text)
    /\ \A i \in 1..Len(str) : text[pos + i] = str[i]

\* how many repetitions of the item the text allows after position pos, up
\* to the item's max
RunLength(text, pos, item) ==
    IF item.cls = "lit"
    THEN (IF LitAt(text, pos, item.str) THEN 1 ELSE 0)
    ELSE LET cap == IF item.max < 0 \/ item.max > Len(text) - pos
                    THEN Len(text) - pos ELSE item.max
             stops == {i \in 1..cap : ~InClass(text[pos + i], item)}
         IN  IF stops = {} THEN (IF cap < 0 THEN 0 ELSE cap) ELSE SetMin(stops) - 1

\* the characters n repetitions of the item take
Width(item, n) == IF item.cls = "lit" THEN n * Len(item.str) ELSE n

NoMatch == [ok |-> FALSE, ends |-> <<>>]

RECURSIVE Matches(_, _, _, _)
\* whether items[k..] match the text after position pos
Matches(items, k, text, pos) ==
    IF k > Len(items) THEN TRUE
    ELSE \E n \in items[k].min..RunLength(text, pos, items[k]) :
            Matches(items, k + 1, text, pos + Width(items[k], n))

\* the repetitions item k takes: the most that let the rest match
Taken(items, k, text, pos) ==
    IF items[k].min = items[k].max THEN items[k].min
    ELSE SetMax({n \in items[k].min..RunLength(text, pos, items[k]) :
                    Matches(items, k + 1, text, pos + Width(items[k], n))})

RECURSIVE MatchEnds(_, _, _, _)
\* for a match of items[k..] after position pos: the position after each item
MatchEnds(items, k, text, pos) ==
    IF k > Len(items) THEN <<>>
    ELSE Once(pos + Width(items[k], Taken(items, k, text, pos)), LAMBDA after :
             <<after>> \o MatchEnds(items, k + 1, text, after))

\* regex.match(text, pos)
MatchItems(items, k, text, pos) ==
    IF Matches(items, k, text, pos)
    THEN [ok |-> TRUE, ends |-> MatchEnds(items, k, text, pos)]
    ELSE NoMatch

\* the text between the start of item i and the end of item j of a match
\* that began at position start
Group(text, start, ends, i, j) ==
    SubSeq(text, (IF i = 1 THEN start ELSE ends[i - 1]) + 1, ends[j])

RECURSIVE SearchFrom(_, _, _)
\* regex.search(text, start): the leftmost position >= start where the
\* pattern matches, -1 when there is none
SearchFrom(items, text, start) ==
    IF start > Len(text) THEN -1
    ELSE IF Matches(items, 1, text, start) THEN start
    ELSE SearchFrom(items, text, start + 1)

RECURSIVE FindIter(_, _, _)
\* regex.finditer(text): the non-overlapping matches, scanning left to
\* right; each as [start, ends]
FindIter(items, text, start) ==
    Once(SearchFrom(items, text, start), LAMBDA at :
        IF at < 0 THEN <<>>
        ELSE Once(MatchItems(items, 1, text, at), LAMBDA m :
                 <<[start |-> at, ends |-> m.ends]>>
                   \o FindIter(items, text, m.ends[Len(m.ends)])))

\* str.strip()
Strip(s) ==
    LET inked == {i \in 1..Len(s) : s[i] \notin Whitespace}
    IN  IF inked = {} THEN <<>> ELSE SubSeq(s, SetMin(inked), SetMax(inked))

\* re.compile("\s+").sub(" ", s): a run of whitespace becomes one space
CollapseWhitespace(s) ==
    Flatten([i \in 1..Len(s) |->
               IF s[i] \notin Whitespace THEN <<s[i]>>
               ELSE IF i > 1 /\ s[i - 1] \in Whitespace THEN <<>> ELSE <<" ">>])

(***************************************************************************)
(* The run's clock: datetime.today()                                       *)
(***************************************************************************)
TodayDDMM == <<"0", "5", "/", "1", "1">>

YesterdayDDMM == <<"0", "4", "/", "1", "1">>

ThisYear == <<"2", "0", "2", "6">>

(***************************************************************************)
(* parse/flash.py: FlashBenefitsParser                                     *)
(***************************************************************************)
FlashFormatter ==
    [ min_chars |-> 3,
      remove_before_match |-> <<"^", "E", "x", "t", "r", "a", "t", "o">>,
      remove_after_match |-> <<"^", "E", "x", "t", "r", "a", "t", "o">>,
      remove_multiple_newlines |-> TRUE,
      replace_occurrences |->
          << <<<<"h", "o", "j", "e">>, TodayDDMM>>,
             <<<<"o", "n", "t", "e", "m">>, YesterdayDDMM>>,
             <<<<".", ".", ".">>, <<>>>> >>,
      split_char |-> <<NL>> ]

\* (?P<description>.+) (?P<date>[\d]{2}/[\d]{2})\n(?:.+)[$S]\s*
\* (?P<value>[.\d]+,[\d]{2}) -- item 1 is description, 3..7 date, 12..15
\* value; the optional (?P<hour>[\d]{2}:[\d]{2})? that ends the pattern is
\* FlashHourRegex
FlashRegex ==
    << Item("dot", 1, -1), Lit(<<" ">>),
       Item("digit", 1, 1), Item("digit", 1, 1), Lit(<<"/">>),
       Item("digit", 1, 1), Item("digit", 1, 1), Lit(<<NL>>),
       Item("dot", 1, -1), OneOf({"$", "S"}), Item("space", 0, -1),
       Item("dotdigit", 1, -1), Lit(<<",">>),
       Item("digit", 1, 1), Item("digit", 1, 1), Lit(<<" ">>) >>

FlashHourRegex ==
    << Item("digit", 1, 1), Item("digit", 1, 1), Lit(<<":">>),
       Item("digit", 1, 1), Item("digit", 1, 1) >>

\* the greedy optional hour group after a match that ended at position pos:
\* <<>> stands for None
FlashHour(text, pos) ==
    IF MatchItems(FlashHourRegex, 1, text, pos).ok THEN SubSeq(text, pos + 1, pos + 5)
    ELSE <<>>

\* match.groupdict() of a match of the whole pattern
FlashGroups(text, m) ==
    [ description |-> Group(text, m.start, m.ends, 1, 1),
      date |-> Group(text, m.start, m.ends, 3, 7),
      value |-> Group(text, m.start, m.ends, 12, 15),
      hour |-> FlashHour(text, m.ends[Len(m.ends)]) ]

RECURSIVE FlashFindIter(_, _)
\* regex.finditer over the whole pattern, hour included
FlashFindIter(text, start) ==
    Once(SearchFrom(FlashRegex, text, start), LAMBDA at :
        IF at < 0 THEN <<>>
        ELSE Once([start |-> at, ends |-> MatchItems(FlashRegex, 1, text, at).ends],
                  LAMBDA m :
                      Once(FlashGroups(text, m), LAMBDA g :
                          <<g>> \o FlashFindIter(text, m.ends[Len(m.ends)] + Len(g.hour)))))

\* " ".join(description.split(" ")[1:]).strip(), then "\s+" -> " "
FlashDescription(description) ==
    CollapseWhitespace(Strip(StrJoin(<<" ">>, Tail(StrSplit(description, <<" ">>)))))

\* value.replace(".", "").replace(",", ".")
DecimalValue(value) == StrReplace(StrReplace(value, <<".">>, <<>>), <<",">>, <<".">>)

FlashEntry(entry) ==
    [ description |-> FlashDescription(entry.description),
      date |-> entry.date \o <<"/">> \o ThisYear,
      value |-> DecimalValue(entry.value),
      hour |-> entry.hour ]

\* parsed_text before the normalisation loop: the groupdict of each match
FlashMatches(input_text_lines) == FlashFindIter(StrJoin(<<NL>>, input_text_lines), 0)

FlashParseTextLines(input_text_lines) ==
    Once(StrJoin(<<NL>>, input_text_lines), LAMBDA text :
        Once(FlashFindIter(text, 0), LAMBDA parsed_text :
            AsList([i \in 1..Len(parsed_text) |-> FlashEntry(parsed_text[i])])))

(***************************************************************************)
(* parse/xp.py: XPCardNotificationsParser                                  *)
(***************************************************************************)
XPFormatter ==
    [ min_chars |-> 3,
      remove_before_match |-> <<>>,
      remove_after_match |-> <<"^", "A", "c", "e", "s", "s", "a", "r">>,
      remove_multiple_newlines |-> TRUE,
      replace_occurrences |-> <<>>,
      split_char |-> <<>> ]

\* Cartão XP (?P<date>[\d]{2}/?[\d]{2})\nCompra\sde\sR\$\s(?P<value>.+)\s
\* APROVADA\sem\s(?P<description>.+\n?.+)\svia\scartão
\* -- items 2..6 are date, 13 is value, 19..21 are description
XPRegex ==
    << Lit(<<"C", "a", "r", "t", "ã", "o", " ", "X", "P", " ">>),
       Item("digit", 1, 1), Item("digit", 1, 1), Opt(<<"/">>),
       Item("digit", 1, 1), Item("digit", 1, 1),
       Lit(<<NL, "C", "o", "m", "p", "r", "a">>), Item("space", 1, 1),
       Lit(<<"d", "e">>), Item("space", 1, 1),
       Lit(<<"R", "$">>), Item("space", 1, 1),
       Item("dot", 1, -1), Item("space", 1, 1),
       Lit(<<"A", "P", "R", "O", "V", "A", "D", "A">>), Item("space", 1, 1),
       Lit(<<"e", "m">>), Item("space", 1, 1),
       Item("dot", 1, -1), Opt(<<NL>>), Item("dot", 1, -1), Item("space", 1, 1),
       Lit(<<"v", "i", "a">>), Item("space", 1, 1),
       Lit(<<"c", "a", "r", "t", "ã", "o">>) >>

XPGroups(text, m) ==
    [ date |-> Group(text, m.start, m.ends, 2, 6),
      value |-> Group(text, m.start, m.ends, 13, 13),
      description |-> Group(text, m.start, m.ends, 19, 21) ]

XPCardEntry(entry) ==
    [ date |-> Take(entry.date, 2) \o <<"/">>
                 \o Drop(entry.date, Len(entry.date) - 2) \o <<"/">> \o ThisYear,
      value |-> DecimalValue(entry.value),
      description |-> StrReplace(entry.description, <<NL>>, <<" ">>) ]

\* regex.finditer(row), each match as its groupdict()
XPRowMatches(row) ==
    Once(FindIter(XPRegex, row, 0), LAMBDA ms :
        AsList([i \in 1..Len(ms) |-> XPGroups(row, ms[i])]))

\* parsed_text before the normalisation loop: the groupdicts, row by row
XPMatches(input_text_lines) ==
    Flatten([r \in 1..Len(input_text_lines) |-> XPRowMatches(input_text_lines[r])])

\* for row in input_text_lines: parsed_text.extend(regex.finditer(row))
XPParseTextLines(input_text_lines) ==
    Once(Flatten([r \in 1..Len(input_text_lines) |-> XPRowMatches(input_text_lines[r])]),
         LAMBDA parsed_text :
             AsList([i \in 1..Len(parsed_text) |-> XPCardEntry(parsed_text[i])]))

(***************************************************************************)
(* The image files the runs work on, and what the OCR engine reads in them *)
(***************************************************************************)
StatementText ==
    <<"E", "x", "t", "r", "a", "t", "o", NL, "*", " ", "B", "a", "r", " ",
      "h", "o", "j", "e", NL, "R", "$", " ", "7", ",", "0", "0", " ", NL,
      "*", " ", "B", "a", "r", " ", "h", "o", "j", "e", NL, "R", "$", " ",
      "7", ",", "0", "0", " ", NL, "E", "x", "t", "r", "a", "t", "o">>

BlankText ==
    <<"E", "x", "t", "r", "a", "t", "o", NL, "s", "e", "m", " ", "d", "a",
      "d", "o", "s", NL, "E", "x", "t", "r", "a", "t", "o">>

NotificationText ==
    <<"C", "a", "r", "t", "ã", "o", " ", "X", "P", " ", "0", "5", "/", "1",
      "1", NL, "C", "o", "m", "p", "r", "a", " ", "d", "e", " ", "R", "$",
      " ", "7", ",", "0", "0", " ", "A", "P", "R", "O", "V", "A", "D", "A",
      " ", "e", "m", " ", "B", "A", "R", " ", "v", "i", "a", " ", "c", "a",
      "r", "t", "ã", "o">>

(***************************************************************************)
(* extract.py: OCRExtractor.extract_text_from_image(s)                     *)
(*                                                                         *)
(* The OCR engine is a black box: OcrText(img) is the text it recognises   *)
(* in img, and the call raises for the files in Corrupt.                   *)
(* executor.map submits one future per path, in order; the pool's workers  *)
(* take pending futures from the work queue in submission order and their  *)
(* calls end in any order; list(...) consumes the result iterator, which   *)
(* waits for the futures by position and, when one raised, cancels the     *)
(* futures that are left and re-raises; leaving the `with` block waits     *)
(* for the running calls.                                                  *)
(***************************************************************************)
Images == {"imgA", "imgB", "imgX"}

\* the image files that cannot be read
Corrupt == {"imgX", "torn.png"}

OcrText(img) ==
    CASE img = "imgA" -> <<"a">>
      [] img = "imgB" -> <<"b", NL, "b">>
      [] img = "stmt.png" -> StatementText
      [] img = "blank.jpg" -> BlankText
      [] img = "note.png" -> NotificationText
      [] OTHER -> <<>>

MaxBatch == 3
MaxWorkers == 3

NoReturn == [kind |-> "none", value |-> <<>>, failed |-> 0]

NewFuture == [state |-> "pending", raised |-> FALSE, text |-> <<>>]

Running == {i \in 1..Len(fut) : fut[i].state = "running"}

Pending == {i \in 1..Len(fut) : fut[i].state = "pending"}

\* the outcome of extract_text_from_image(path) in a worker
OcrSwallowsErrors(path) == [state |-> "finished", raised |-> FALSE, text |-> OcrText(path)]

extract_text_from_image(path) ==
    IF path \in Corrupt
    THEN [state |-> "finished", raised |-> TRUE, text |-> <<>>]
    ELSE [state |-> "finished", raised |-> FALSE, text |-> OcrText(path)]

\* the position whose future the result iterator waits for next
NextResultAsCompleted ==
    IF Len(finished) > Len(collected) THEN finished[Len(collected) + 1]
    ELSE Len(collected) + 1

NextResult == Len(collected) + 1

\* executor.map(self.extract_text_from_image, paths): every path is submitted
MapSubmit ==
    /\ pc = "call"
    /\ fut' = [i \in 1..Len(paths) |-> NewFuture]
    /\ pc' = "collect"
    /\ UNCHANGED <<paths, max_workers, finished, collected, ret>>
    /\ UNCHANGED <<fvars, mvars, xvars>>

\* an idle worker takes the oldest pending future from the work queue
WorkerStart(i) ==
    /\ pc \in {"collect", "shutdown"}
    /\ i \in Pending
    /\ \A j \in Pending : i <= j
    /\ Cardinality(Running) < max_workers
    /\ fut' = [fut EXCEPT ![i].state = "running"]
    /\ UNCHANGED <<paths, max_workers, pc, finished, collected, ret>>
    /\ UNCHANGED <<fvars, mvars, xvars>>

\* the OCR call of a running future ends: it returns its text or raises
WorkerFinish(i) ==
    /\ i \in Running
    /\ fut' = [fut EXCEPT ![i] = extract_text_from_image(paths[i])]
    /\ finished' = Append(finished, i)
    /\ UNCHANGED <<paths, max_workers, pc, collected, ret>>
    /\ UNCHANGED <<fvars, mvars, xvars>>

\* list(...) takes the next result from the iterator
CollectResult ==
    /\ pc = "collect"
    /\ Len(collected) < Len(paths)
    /\ LET n == NextResult
       IN  /\ fut[n].state = "finished"
           /\ IF fut[n].raised
              THEN /\ fut' = [i \in 1..Len(fut) |->
                                IF fut[i].state = "pending"
                                THEN [fut[i] EXCEPT !.state = "cancelled"]
                                ELSE fut[i]]
                   /\ ret' = [kind |-> "raise", value |-> <<>>, failed |-> n]
                   /\ pc' = "shutdown"
                   /\ UNCHANGED collected
              ELSE /\ collected' = Append(collected, fut[n].text)
                   /\ UNCHANGED <<fut, ret, pc>>
    /\ UNCHANGED <<paths, max_workers, finished>>
    /\ UNCHANGED <<fvars, mvars, xvars>>

\* the iterator is exhausted: list(...) is complete
CollectDone ==
    /\ pc = "collect"
    /\ Len(collected) = Len(paths)
    /\ ret' = [kind |-> "return", value |-> collected, failed |-> 0]
    /\ pc' = "shutdown"
    /\ UNCHANGED <<paths, max_workers, fut, finished, collected>>
    /\ UNCHANGED <<fvars, mvars, xvars>>

\* ThreadPoolExecutor.__exit__: shutdown(wait=True), then the caller goes on
PoolShutdown ==
    /\ pc = "shutdown"
    /\ Running = {}
    /\ Pending = {}
    /\ pc' = "done"
    /\ UNCHANGED <<paths, max_workers, fut, finished, collected, ret>>
    /\ UNCHANGED <<fvars, mvars, xvars>>

(***************************************************************************)
(* extract.py: OCRExtractor.extract                                        *)
(*                                                                         *)
(* A path_or_paths argument is [isList, isTuple, items]: a str path has    *)
(* one item; a tuple is no list, and Path(a tuple) raises TypeError.       *)
(* A Python value that is a str or a list of str is [isStr, str, list];    *)
(* Iter is what iterating it yields: the characters of a str, the          *)
(* elements of a list.  A call's result is [exc, val].                     *)
(***************************************************************************)
Files == {"stmt.png", "blank.jpg", "note.png", "torn.png"}

\* what path.rglob("*") finds under a directory, in traversal order; a path
\* that does not exist holds nothing
DirTree(path) ==
    CASE path = "shots" -> <<"stmt.png", "blank.jpg">>
      [] path = "notes" -> <<"note.png">>
      [] OTHER -> <<>>

Ext(file) ==
    CASE file \in {"blank.jpg"} -> "jpg"
      [] OTHER -> "png"

StrPath(path) == [isList |-> FALSE, isTuple |-> FALSE, items |-> <<path>>]

ListPath(items) == [isList |-> TRUE, isTuple |-> FALSE, items |-> items]

\* a tuple of paths, as click passes the values of an nargs=-1 argument
TuplePath(items) == [isList |-> FALSE, isTuple |-> TRUE, items |-> items]

StrVal(str) == [isStr |-> TRUE, str |-> str, list |-> <<>>]

ListVal(list) == [isStr |-> FALSE, str |-> <<>>, list |-> list]

Iter(v) == IF v.isStr THEN AsList([i \in 1..Len(v.str) |-> <<v.str[i]>>]) ELSE v.list

Ok(val) == [exc |-> "none", val |-> val]

Raise(exc, val) == [exc |-> exc, val |-> val]

\* what a call of extract_text_from_images returns or raises: the result of
\* the pool protocol above
extract_text_from_images(image_paths) ==
    Once(AsList([i \in 1..Len(image_paths) |-> extract_text_from_image(image_paths[i])]),
         LAMBDA calls :
             IF \E i \in 1..Len(calls) : calls[i].raised
             THEN Raise("OCRError", ListVal(<<>>))
             ELSE Ok(ListVal(AsList([i \in 1..Len(calls) |-> calls[i].text]))))

\* [path_obj.rglob(f"*.{ext}") for ext in ["jpg", "jpeg", "png"]], chained
ImageFiles(path) ==
    Flatten([e \in 1..3 |->
               SelectSeq(DirTree(path), LAMBDA f : Ext(f) = <<"jpg", "jpeg", "png">>[e])])

\* extract for a str path: a file is read alone, a directory as a batch
ExtractPath(path) ==
    IF path \in Files
    THEN LET call == extract_text_from_image(path)
         IN  IF call.raised THEN Raise("OCRError", StrVal(<<>>)) ELSE Ok(StrVal(call.text))
    ELSE extract_text_from_images(ImageFiles(path))

extract(path_or_paths) ==
    IF path_or_paths.isList
    THEN Once(AsList([i \in 1..Len(path_or_paths.items) |->
                         ExtractPath(path_or_paths.items[i])]),
              LAMBDA each :
                  IF \E i \in 1..Len(each) : each[i].exc # "none"
                  THEN Raise("OCRError", ListVal(<<>>))
                  ELSE Ok(ListVal(Flatten([i \in 1..Len(each) |-> Iter(each[i].val)]))))
    ELSE IF path_or_paths.isTuple
    THEN Raise("TypeError", StrVal(<<>>))
    ELSE ExtractPath(path_or_paths.items[1])

(***************************************************************************)
(* parse/base.py: BaseParser                                               *)
(*                                                                         *)
(* `images`, `input_text` and `parsed_text` are properties over            *)
(* functools.lru_cache(maxsize=1): the decorator wraps the function in the *)
(* class body, so each property has ONE cache, shared by every instance,   *)
(* keyed by `self`, holding the one most recent entry.  A call that raises *)
(* stores nothing.  memo is the three caches and the run counters, passed  *)
(* through the nested property reads.                                      *)
(***************************************************************************)
ParserIds == {1, 2}

ParserClasses == {"flash_benefits", "xp_card_notifications"}

Formatter(self) == IF self.cls = "flash_benefits" THEN FlashFormatter ELSE XPFormatter

parse_text_lines(self, input_text_lines) ==
    IF self.cls = "flash_benefits" THEN FlashParseTextLines(input_text_lines)
    ELSE XPParseTextLines(input_text_lines)

EmptyCache(value) == [full |-> FALSE, key |-> 0, value |-> value]

Hit(cache, p) == cache.full /\ cache.key = p

Stored(p, value) == [full |-> TRUE, key |-> p, value |-> value]

Memo ==
    [ images |-> images_cache, input_text |-> input_text_cache,
      parsed_text |-> parsed_text_cache, runs |-> runs ]

Ran(memo, what, p) == [memo EXCEPT !.runs[what][p] = @ + 1]

\* flatten(*map(self.formatter.format, imgs)): imgs is iterated
FormatImages(self, imgs) ==
    Once(Iter(imgs), LAMBDA each :
        Flatten([i \in 1..Len(each) |-> Format(Formatter(self), each[i])]))

\* the parsers the library callers make: parser_class(images_path)
ParserChoices ==
    { [cls |-> "flash_benefits", images_path |-> StrPath("shots")],
      [cls |-> "flash_benefits", images_path |-> StrPath("stmt.png")],
      [cls |-> "flash_benefits", images_path |-> StrPath("void")],
      [cls |-> "xp_card_notifications", images_path |-> StrPath("notes")] }

\* the paths `convert` is run on: passed as the list the signature declares,
\* or as the tuple click makes of an nargs=-1 argument
InputPaths == {<<"shots">>, <<"stmt.png", "void">>, <<"torn.png">>}

InputPathArgs == {ListPath(i) : i \in InputPaths} \cup {TuplePath(i) : i \in InputPaths}

\* BaseParser.images
images(p, self, memo) ==
    IF Hit(memo.images, p)
    THEN [memo |-> memo, exc |-> "none", val |-> memo.images.value]
    ELSE Once(extract(self.images_path), LAMBDA r :
             Once(Ran(memo, "ocr", p), LAMBDA m :
                 IF r.exc # "none"
                 THEN [memo |-> m, exc |-> r.exc, val |-> r.val]
                 ELSE [memo |-> [m EXCEPT !.images = Stored(p, r.val)],
                       exc |-> "none", val |-> r.val]))

\* BaseParser.input_text
input_text(p, self, memo) ==
    IF Hit(memo.input_text, p)
    THEN [memo |-> memo, exc |-> "none", val |-> memo.input_text.value]
    ELSE Once(images(p, self, memo), LAMBDA i :
             IF i.exc # "none"
             THEN [memo |-> i.memo, exc |-> i.exc, val |-> <<>>]
             ELSE Once(FormatImages(self, i.val), LAMBDA lines :
                      [memo |-> [Ran(i.memo, "format", p) EXCEPT
                                    !.input_text = Stored(p, lines)],
                       exc |-> "none", val |-> lines]))

\* the end of parsed_text: raise EmptyResults for no record, else return
CheckNotEmptyNeverRaises(parsed) == Ok(parsed)

CheckNotEmpty(parsed) ==
    IF Len(parsed) = 0 THEN Raise("EmptyResults", <<>>) ELSE Ok(parsed)

\* BaseParser.parsed_text; parsed is the number of records parse_text_lines
\* returned in this read, -1 when it was not called
parsed_text(p, self, memo) ==
    IF Hit(memo.parsed_text, p)
    THEN [memo |-> memo, exc |-> "none", val |-> memo.parsed_text.value, parsed |-> -1]
    ELSE Once(input_text(p, self, memo), LAMBDA t :
             IF t.exc # "none"
             THEN [memo |-> t.memo, exc |-> t.exc, val |-> <<>>, parsed |-> -1]
             ELSE Once(parse_text_lines(self, t.val), LAMBDA parsed :
                      Once(CheckNotEmpty(parsed), LAMBDA checked :
                          Once(Ran(t.memo, "parse", p), LAMBDA m :
                              IF checked.exc # "none"
                              THEN [memo |-> m, exc |-> checked.exc, val |-> <<>>,
                                    parsed |-> Len(parsed)]
                              ELSE [memo |-> [Ran(m, "parsed", p) EXCEPT
                                                 !.parsed_text = Stored(p, checked.val)],
                                    exc |-> "none", val |-> checked.val,
                                    parsed |-> Len(parsed)]))))

\* no row is dropped
DropDuplicatesKeepsAll(rows, kept) == rows

RECURSIVE DropDuplicates(_, _)
\* DataFrame.drop_duplicates: the first occurrence of each row is kept
DropDuplicates(rows, kept) ==
    IF rows = <<>> THEN kept
    ELSE DropDuplicates(Tail(rows),
             IF \E i \in 1..Len(kept) : kept[i] = Head(rows)
             THEN kept ELSE Append(kept, Head(rows)))

\* BaseParser.to_df: the rows of the DataFrame
to_df(p, self, drop_duplicates, memo) ==
    Once(parsed_text(p, self, memo), LAMBDA r :
        IF r.exc # "none" THEN r
        ELSE [r EXCEPT !.val = IF drop_duplicates THEN DropDuplicates(r.val, <<>>)
                                ELSE r.val])

NoFile == [exists |-> FALSE, rows |-> <<>>]

\* DataFrame.to_csv(output_path, ...): the file now holds the table's rows
WriteCsv(rows) == [exists |-> TRUE, rows |-> rows]

NoOutcome ==
    [op |-> "none", parser |-> 0, exc |-> "none", parsed |-> -1, n |-> 0, wrote |-> FALSE]

Observed(op, p, r, n, wrote) ==
    [op |-> op, parser |-> p, exc |-> r.exc, parsed |-> r.parsed, n |-> n, wrote |-> wrote]

MaxRuns == 2

\* the process is still running (a run of `convert` ends it), and the bound
\* on the counters: no property body has run MaxRuns times yet
MayRun ==
    /\ ~cli.ran
    /\ \A what \in DOMAIN runs : \A p \in ParserIds : runs[what][p] < MaxRuns

SetMemo(memo) ==
    /\ images_cache' = memo.images
    /\ input_text_cache' = memo.input_text
    /\ parsed_text_cache' = memo.parsed_text
    /\ runs' = memo.runs

NotMade == [made |-> FALSE, cls |-> "flash_benefits", images_path |-> StrPath("void")]

\* a process that has just started: nothing is cached, no parser is made
Fresh ==
    /\ ~cli.ran
    /\ \A q \in ParserIds : ~parsers[q].made
    /\ ~images_cache.full /\ ~input_text_cache.full /\ ~parsed_text_cache.full

\* parser_class(images_path)
NewParser(p, cls, images_path) ==
    /\ ~cli.ran
    /\ ~parsers[p].made
    /\ \A q \in ParserIds : q < p => parsers[q].made
    /\ parsers' = [parsers EXCEPT ![p] = [made |-> TRUE, cls |-> cls, images_path |-> images_path]]
    /\ UNCHANGED <<images_cache, input_text_cache, parsed_text_cache, runs,
                   outcome, output, cli>>
    /\ UNCHANGED <<fvars, pvars, xvars>>

\* parser.images
ReadImages(p) ==
    /\ parsers[p].made /\ MayRun
    /\ \E r \in {images(p, parsers[p], Memo)} :
          /\ SetMemo(r.memo)
          /\ outcome' = [op |-> "images", parser |-> p, exc |-> r.exc, parsed |-> -1,
                         n |-> Len(Iter(r.val)), wrote |-> FALSE]
    /\ UNCHANGED <<parsers, output, cli>>
    /\ UNCHANGED <<fvars, pvars, xvars>>

\* parser.input_text
ReadInputText(p) ==
    /\ parsers[p].made /\ MayRun
    /\ \E r \in {input_text(p, parsers[p], Memo)} :
          /\ SetMemo(r.memo)
          /\ outcome' = [op |-> "input_text", parser |-> p, exc |-> r.exc,
                         parsed |-> -1, n |-> Len(r.val), wrote |-> FALSE]
    /\ UNCHANGED <<parsers, output, cli>>
    /\ UNCHANGED <<fvars, pvars, xvars>>

\* parser.parsed_text
ReadParsedText(p) ==
    /\ parsers[p].made /\ MayRun
    /\ \E r \in {parsed_text(p, parsers[p], Memo)} :
          /\ SetMemo(r.memo)
          /\ outcome' = Observed("parsed_text", p, r, Len(r.val), FALSE)
    /\ UNCHANGED <<parsers, output, cli>>
    /\ UNCHANGED <<fvars, pvars, xvars>>

\* parser.to_df(drop_duplicates)
ToDf(p, drop_duplicates) ==
    /\ parsers[p].made /\ MayRun
    /\ \E r \in {to_df(p, parsers[p], drop_duplicates, Memo)} :
          /\ SetMemo(r.memo)
          /\ outcome' = Observed("to_df", p, r, Len(r.val), FALSE)
    /\ UNCHANGED <<parsers, output, cli>>
    /\ UNCHANGED <<fvars, pvars, xvars>>

\* parser.to_csv(output_path, drop_duplicates): nothing is written when
\* to_df raises
ToCsv(p, drop_duplicates) ==
    /\ parsers[p].made /\ MayRun
    /\ \E r \in {to_df(p, parsers[p], drop_duplicates, Memo)} :
          /\ SetMemo(r.memo)
          /\ output' = IF r.exc = "none" THEN WriteCsv(r.val) ELSE output
          /\ outcome' = Observed("to_csv", p, r, Len(r.val), r.exc = "none")
    /\ UNCHANGED <<parsers, cli>>
    /\ UNCHANGED <<fvars, pvars, xvars>>

(***************************************************************************)
(* cli/__init__.py: convert                                                *)
(*                                                                         *)
(* cli is [ran, out, exit, found]: the messages printed, in order, the     *)
(* command's exit code (0 when convert returns, 1 for an exception that    *)
(* leaves it, 2 for click's usage errors) and the number the "Found ..."   *)
(* message reports.  The command runs in a process of its own and makes    *)
(* the process's first parser.                                             *)
(***************************************************************************)
NotRun == [ran |-> FALSE, out |-> <<>>, exit |-> 0, found |-> 0]

\* a parser flag (--<parser_name>) wins over --parser
SelectedParser(parser, flag) == IF flag # "" THEN flag ELSE parser

\* parser_obj.to_csv(...) inside try/except EmptyResults, then the success
\* message: what is printed after "Found ..." and the exit code
ConvertReport(exc) ==
    CASE exc = "none" -> [out |-> <<"success">>, exit |-> 0]
      [] exc = "EmptyResults" -> [out |-> <<"EmptyResults", "success">>, exit |-> 0]
      [] OTHER -> [out |-> <<>>, exit |-> 1]

Convert(parser, flag, input_path, drop_duplicates) ==
    /\ Fresh
    /\ LET p == 1
           chosen == SelectedParser(parser, flag)
           self == [made |-> TRUE, cls |-> chosen, images_path |-> input_path]
       IN  IF chosen = ""
           THEN /\ cli' = [ran |-> TRUE, out |-> <<"MissingParameter">>, exit |-> 2,
                           found |-> 0]
                /\ UNCHANGED <<parsers, images_cache, input_text_cache,
                               parsed_text_cache, runs, outcome, output>>
           ELSE /\ parsers' = [parsers EXCEPT ![p] = self]
                /\ \E i \in {images(p, self, Memo)} :
                      IF i.exc # "none"
                      THEN /\ SetMemo(i.memo)
                           /\ cli' = [ran |-> TRUE, out |-> <<"warning">>, exit |-> 1,
                                      found |-> 0]
                           /\ outcome' = [op |-> "images", parser |-> p, exc |-> i.exc,
                                          parsed |-> -1, n |-> 0, wrote |-> FALSE]
                           /\ UNCHANGED output
                      ELSE \E c \in {to_df(p, self, drop_duplicates, i.memo)} :
                              /\ SetMemo(c.memo)
                              /\ output' = IF c.exc = "none" THEN WriteCsv(c.val)
                                           ELSE output
                              /\ outcome' = Observed("to_csv", p, c, Len(c.val),
                                                     c.exc = "none")
                              /\ cli' = [ran |-> TRUE, found |-> Len(Iter(i.val)),
                                         exit |-> ConvertReport(c.exc).exit,
                                         out |-> <<"warning", "found">>
                                                   \o ConvertReport(c.exc).out]
    /\ UNCHANGED <<fvars, pvars, xvars>>

(***************************************************************************)
(* The three specifications: each starts the part it exercises and leaves  *)
(* the other parts at rest.                                                *)
(***************************************************************************)
NoOutput == [done |-> FALSE, lines |-> <<>>]

FormatIdle ==
    /\ fcfg = [min_chars |-> 3, remove_before_match |-> <<>>,
               remove_after_match |-> <<>>, remove_multiple_newlines |-> TRUE,
               replace_occurrences |-> <<>>, split_char |-> <<NL>>]
    /\ ftext = <<>>
    /\ fout = NoOutput

PoolIdle ==
    /\ paths = <<>>
    /\ max_workers = 1
    /\ pc = "idle"
    /\ fut = <<>>
    /\ finished = <<>>
    /\ collected = <<>>
    /\ ret = NoReturn

NoCall == [done |-> FALSE, cls |-> "", groups |-> <<>>, records |-> <<>>]

ParseIdle ==
    /\ arg_lines = <<>>
    /\ parse_ret = NoCall

PipelineIdle ==
    /\ parsers = [p \in ParserIds |-> NotMade]
    /\ images_cache = EmptyCache(ListVal(<<>>))
    /\ input_text_cache = EmptyCache(<<>>)
    /\ parsed_text_cache = EmptyCache(<<>>)
    /\ runs = [what \in {"ocr", "format", "parse", "parsed"} |-> [p \in ParserIds |-> 0]]
    /\ outcome = NoOutcome
    /\ output = NoFile
    /\ cli = NotRun

(***************************************************************************)
(* Bounded inputs of the formatter                                         *)
(***************************************************************************)
MaxTextLen == 5
MaxMinChars == 2

Alphabet == {"a", "b", NL}

Texts == UNION {[1..n -> Alphabet] : n \in 0..MaxTextLen}

BeforePatterns == {<<>>, <<"^", "a">>}

AfterPatterns == {<<>>, <<"^", "a">>, <<"b">>}

ReplaceTables ==
    { <<>>,
      << <<<<"b">>, <<>>>> >>,
      << <<<<"a">>, <<"b">>>>, <<<<"b", "b">>, <<"a">>>> >> }

SplitChars == {<<>>, <<NL>>}

FormatterConfigs ==
    [ min_chars : 0..MaxMinChars,
      remove_before_match : BeforePatterns,
      remove_after_match : AfterPatterns,
      remove_multiple_newlines : BOOLEAN,
      replace_occurrences : ReplaceTables,
      split_char : SplitChars ]

FormatInit ==
    /\ fcfg \in FormatterConfigs
    /\ ftext \in Texts
    /\ fout = NoOutput
    /\ PoolIdle
    /\ PipelineIdle
    /\ ParseIdle

\* one call formatter.format(text)
FormatCall ==
    /\ ~fout.done
    /\ fout' = [done |-> TRUE, lines |-> Format(fcfg, ftext)]
    /\ UNCHANGED <<fcfg, ftext>>
    /\ UNCHANGED <<pvars, mvars, xvars>>

FormatNext == FormatCall

FormatSpec == FormatInit /\ [][FormatNext]_vars

PoolInit ==
    /\ paths \in UNION {[1..n -> Images] : n \in 0..MaxBatch}
    /\ max_workers \in 1..MaxWorkers
    /\ pc = "call"
    /\ fut = <<>>
    /\ finished = <<>>
    /\ collected = <<>>
    /\ ret = NoReturn
    /\ FormatIdle
    /\ PipelineIdle
    /\ ParseIdle

PoolNext ==
    \/ MapSubmit
    \/ \E i \in 1..Len(fut) : WorkerStart(i)
    \/ \E i \in 1..Len(fut) : WorkerFinish(i)
    \/ CollectResult
    \/ CollectDone
    \/ PoolShutdown

PoolSpec == PoolInit /\ [][PoolNext]_vars

(***************************************************************************)
(* Direct calls of parse_text_lines: the argument is any list of up to     *)
(* MaxLines lines taken from LineChoices, pieces of both vendors' texts    *)
(* as OCR may deliver them.                                                *)
(***************************************************************************)
MaxLines == 3

LineChoices ==
    { <<"*", " ", "B", "a", "r", " ", "0", "5", "/", "1", "1">>,
      <<" ", "B", "a", "r", " ", "0", "5", "/", "1", "1">>,
      <<"*", "\t", "B", "a", "r", " ", " ", "S", "u", "l", " ", "0", "5", "/", "1", "1">>,
      <<"R", "$", " ", "7", ",", "0", "0", " ">>,
      <<"C", "a", "r", "t", "ã", "o", " ", "X", "P", " ", "0", "5", "/", "1", "1">>,
      <<"C", "o", "m", "p", "r", "a", " ", "d", "e", " ", "R", "$", " ", "7", ",",
        "0", "0", " ", "A", "P", "R", "O", "V", "A", "D", "A", " ", "e", "m", " ",
        "B", "A", "R", " ", "v", "i", "a", " ", "c", "a", "r", "t", "ã", "o">>,
      NotificationText }

ParseInit ==
    /\ arg_lines \in UNION {[1..n -> LineChoices] : n \in 0..MaxLines}
    /\ parse_ret = NoCall
    /\ FormatIdle
    /\ PoolIdle
    /\ PipelineIdle

\* FlashBenefitsParser(...).parse_text_lines(arg_lines)
FlashParseCall ==
    /\ ~parse_ret.done
    /\ parse_ret' = [done |-> TRUE, cls |-> "flash_benefits",
                     groups |-> FlashMatches(arg_lines),
                     records |-> FlashParseTextLines(arg_lines)]
    /\ UNCHANGED arg_lines
    /\ UNCHANGED <<fvars, pvars, mvars>>

\* XPCardNotificationsParser(...).parse_text_lines(arg_lines)
XPParseCall ==
    /\ ~parse_ret.done
    /\ parse_ret' = [done |-> TRUE, cls |-> "xp_card_notifications",
                     groups |-> XPMatches(arg_lines),
                     records |-> XPParseTextLines(arg_lines)]
    /\ UNCHANGED arg_lines
    /\ UNCHANGED <<fvars, pvars, mvars>>

ParseNext ==
    \/ FlashParseCall
    \/ XPParseCall

ParseSpec == ParseInit /\ [][ParseNext]_vars

\* the process starts with no parser made and the three caches empty
Init ==
    /\ PipelineIdle
    /\ FormatIdle
    /\ PoolIdle
    /\ ParseIdle

Next ==
    \/ \E p \in ParserIds, choice \in ParserChoices :
          NewParser(p, choice.cls, choice.images_path)
    \/ \E p \in ParserIds : ReadImages(p)
    \/ \E p \in ParserIds : ReadInputText(p)
    \/ \E p \in ParserIds : ReadParsedText(p)
    \/ \E p \in ParserIds, drop_duplicates \in BOOLEAN : ToDf(p, drop_duplicates)
    \/ \E p \in ParserIds, drop_duplicates \in BOOLEAN : ToCsv(p, drop_duplicates)
    \/ \E parser \in ParserClasses \cup {""}, flag \in ParserClasses \cup {""},
          input_path \in InputPathArgs, drop_duplicates \in BOOLEAN :
          Convert(parser, flag, input_path, drop_duplicates)

Spec == Init /\ [][Next]_vars

(***************************************************************************)
(* Claims about BasicLinesFormatter.format (checked under FormatSpec)      *)
(***************************************************************************)
SplitOfInput == SplitLines(fcfg, ftext)

BeforeMatches ==
    {i \in 1..Len(SplitOfInput) : ReMatch(fcfg.remove_before_match, SplitOfInput[i])}

\* C3 as stated: every line format returns has length >= min_chars, for
\* every configuration and every input text.
C3_EveryOutputLineHasMinChars ==
    fout.done =>
        \A i \in 1..Len(fout.lines) : Len(fout.lines[i]) >= fcfg.min_chars

\* C3 amended: every line format returns is the image, under the configured
\* replacements, of a split line whose length before the replacements was
\* >= min_chars; with no replace_occurrences every returned line itself has
\* length >= min_chars.
C3_OutputLinesComeFromLongEnoughLines ==
    fout.done =>
        /\ \A i \in 1..Len(fout.lines) :
              \E j \in 1..Len(SplitOfInput) :
                  /\ Len(SplitOfInput[j]) >= fcfg.min_chars
                  /\ fout.lines[i] = ReplaceRow(fcfg.replace_occurrences, SplitOfInput[j])
        /\ fcfg.replace_occurrences = <<>> =>
              \A i \in 1..Len(fout.lines) : Len(fout.lines[i]) >= fcfg.min_chars

\* C3 witness: the filter dropped a short line and kept another, and a
\* replacement then shortened a kept line below min_chars.
C3_Witness ==
    /\ fout.done
    /\ fcfg.min_chars >= 1
    /\ \E j \in 1..Len(SplitOfInput) : Len(SplitOfInput[j]) < fcfg.min_chars
    /\ \E i \in 1..Len(fout.lines) : Len(fout.lines[i]) < fcfg.min_chars
    /\ \E i \in 1..Len(fout.lines) : Len(fout.lines[i]) >= fcfg.min_chars

\* C8: with a remove-before anchor, format discards exactly the split lines
\* up to and including the matching line of smallest index, before the
\* remove-after cut, the length filter and the replacements; when no line
\* matches, the output is that of the same formatter without the anchor.
C8_RemoveBeforeCutsAtFirstMatch ==
    (fout.done /\ fcfg.remove_before_match # <<>>) =>
        IF BeforeMatches # {}
        THEN \E first \in BeforeMatches :
                /\ \A i \in BeforeMatches : first <= i
                /\ fout.lines =
                     ReplaceOccurrences(fcfg, MinCharsFilter(fcfg, RemoveAfter(fcfg,
                         SubSeq(SplitOfInput, first + 1, Len(SplitOfInput)))))
        ELSE fout.lines = Format([fcfg EXCEPT !.remove_before_match = <<>>], ftext)

\* C8 witness: two lines match the remove-before anchor, the first of them
\* is not the first line, and something is left after the cut.
C8_Witness ==
    /\ fout.done
    /\ fcfg.remove_before_match # <<>>
    /\ Cardinality(BeforeMatches) >= 2
    /\ 1 \notin BeforeMatches
    /\ fout.lines # <<>>

\* C9: when remove-before and remove-after are the same pattern and at
\* least two split lines match it, the lines kept before the length filter
\* and the replacements are exactly those strictly between the first and the
\* last matching line, in their original order.
C9_SameAnchorKeepsRegionBetween ==
    ( /\ fout.done
      /\ fcfg.remove_before_match # <<>>
      /\ fcfg.remove_after_match = fcfg.remove_before_match
      /\ Cardinality(BeforeMatches) >= 2 ) =>
        \E first \in BeforeMatches, last \in BeforeMatches :
            /\ \A i \in BeforeMatches : first <= i /\ i <= last
            /\ fout.lines =
                 ReplaceOccurrences(fcfg, MinCharsFilter(fcfg,
                     SubSeq(SplitOfInput, first + 1, last - 1)))

\* C9 witness: the same anchor on both sides, three matching lines, and a
\* line strictly between the first and the last match survives.
C9_Witness ==
    /\ fout.done
    /\ fcfg.remove_before_match # <<>>
    /\ fcfg.remove_after_match = fcfg.remove_before_match
    /\ Cardinality(BeforeMatches) >= 3
    /\ fout.lines # <<>>

(***************************************************************************)
(* Claims about extract_text_from_images (checked under PoolSpec)          *)
(***************************************************************************)
CorruptPositions == {i \in 1..Len(paths) : paths[i] \in Corrupt}

\* C2: extract_text_from_images over paths [p1..pn] returns
\* [text(p1)..text(pn)] in input order, whatever the order in which the
\* workers' OCR calls end.
C2_ResultsInInputOrder ==
    (pc = "done" /\ ret.kind = "return") =>
        ret.value = [i \in 1..Len(paths) |-> OcrText(paths[i])]

\* C2 witness: three images were extracted by more than one worker, the
\* call of a later image ended before the call of the first one, and the
\* result was returned.
C2_Witness ==
    /\ pc = "done"
    /\ ret.kind = "return"
    /\ max_workers > 1
    /\ Len(paths) = 3
    /\ paths[1] # paths[2]
    /\ finished[1] # 1

\* C10: when the OCR call of any image of the batch fails,
\* extract_text_from_images raises the failure of a failed image and
\* returns no result sequence, whichever worker fails and in whatever order
\* the workers finish.
C10_FailurePropagates ==
    (pc = "done" /\ CorruptPositions # {}) =>
        /\ ret.kind = "raise"
        /\ ret.value = <<>>
        /\ ret.failed \in CorruptPositions

\* C10 witness: the second image of a batch of three failed after the
\* third had already ended well, and the caller saw the failure.
C10_Witness ==
    /\ pc = "done"
    /\ Len(paths) = 3
    /\ CorruptPositions = {2}
    /\ ret.kind = "raise"
    /\ Len(finished) = 3
    /\ finished[1] = 3

(***************************************************************************)
(* Claims about the parser pipeline and `convert` (checked under Spec)     *)
(***************************************************************************)

\* the whole OCR text of each image file a path names: a file is one image,
\* a directory is its image files
ImageTexts(path) ==
    IF path \in Files THEN <<OcrText(path)>>
    ELSE AsList([i \in 1..Len(ImageFiles(path)) |-> OcrText(ImageFiles(path)[i])])

\* one whole text per image of a path or a list of paths, in input order
WholeTexts(path_or_paths) ==
    Flatten([i \in 1..Len(path_or_paths.items) |-> ImageTexts(path_or_paths.items[i])])

\* C1 as stated: for every parser instance, whatever the reads made on it
\* and on the other live instances, the OCR extraction, the formatting and a
\* successful parse have each run at most once for that instance.
C1_ComputedAtMostOncePerInstance ==
    \A p \in ParserIds :
        /\ runs["ocr"][p] <= 1
        /\ runs["format"][p] <= 1
        /\ runs["parsed"][p] <= 1

\* C4 as stated: extract on a list of paths returns one whole OCR text per
\* image file, a file path giving one element and a directory one element
\* per image, in the order of the list.
C4_ListOfPathsGivesOneTextPerImage ==
    \A p \in ParserIds :
        (parsers[p].made /\ parsers[p].images_path.isList /\ Hit(images_cache, p)) =>
            images_cache.value = ListVal(WholeTexts(parsers[p].images_path))

\* C5 as stated: when a run of `convert` parses zero records, the command
\* shows the no-results message, ends with a failure exit code and does not
\* end by reporting success.
C5_NoResultsEndsInFailure ==
    (cli.ran /\ outcome.exc = "EmptyResults") =>
        /\ \E i \in 1..Len(cli.out) : cli.out[i] = "EmptyResults"
        /\ cli.exit # 0
        /\ cli.out[Len(cli.out)] # "success"

\* C6: whenever parse_text_lines returned zero records in a read of
\* parsed_text, to_df or to_csv, that read raised EmptyResults and wrote no
\* file; a run of `convert` that parsed zero records leaves no output file.
C6_ZeroRecordsRaiseEmptyResults ==
    outcome.parsed = 0 =>
        /\ outcome.op \in {"parsed_text", "to_df", "to_csv"}
        /\ outcome.exc = "EmptyResults"
        /\ ~outcome.wrote
        /\ cli.ran => ~output.exists

\* C6 witness: to_csv on a parser whose formatted lines are the empty
\* sequence parsed zero records, raised EmptyResults and wrote no file.
C6_Witness ==
    /\ outcome.op = "to_csv"
    /\ outcome.parsed = 0
    /\ outcome.exc = "EmptyResults"
    /\ Hit(input_text_cache, outcome.parser)
    /\ input_text_cache.value = <<>>
    /\ ~output.exists

\* C7 as stated: for every parser instance, whatever the shape of
\* images_path, input_text is the concatenation, in image order, of
\* formatter.format over the whole OCR text of each image.
C7_InputTextIsFormatOfEachWholeText ==
    \A p \in ParserIds :
        (parsers[p].made /\ Hit(input_text_cache, p)) =>
            input_text_cache.value =
                Flatten([i \in 1..Len(WholeTexts(parsers[p].images_path)) |->
                           Format(Formatter(parsers[p]),
                                  WholeTexts(parsers[p].images_path)[i])])

(***************************************************************************)
(* Properties of the vendor parsers called on their own                    *)
(***************************************************************************)
\* the records of one left-to-right scan of the vendor grammar over the
\* blob "\n".join(lines)
BlobRecords(cls, lines) ==
    IF cls = "flash_benefits"
    THEN Once(FlashFindIter(StrJoin(<<NL>>, lines), 0), LAMBDA ms :
             AsList([i \in 1..Len(ms) |-> FlashEntry(ms[i])]))
    ELSE Once(XPRowMatches(StrJoin(<<NL>>, lines)), LAMBDA ms :
             AsList([i \in 1..Len(ms) |-> XPCardEntry(ms[i])]))

\* C11: for both vendor parsers, parse_text_lines(lines) returns the records
\* of all non-overlapping matches of the vendor grammar found by one
\* left-to-right scan over the blob made by joining the lines with newlines,
\* one record per match, in match order.
C11_RecordsAreMatchesOverJoinedBlob ==
    parse_ret.done => parse_ret.records = BlobRecords(parse_ret.cls, arg_lines)

RECURSIVE Tokens(_)
\* the whitespace-delimited tokens of s: its maximal runs of non-whitespace
Tokens(s) ==
    IF s = <<>> THEN <<>>
    ELSE IF Head(s) \in Whitespace THEN Tokens(Tail(s))
    ELSE LET stops == {i \in 1..Len(s) : s[i] \in Whitespace}
             n == IF stops = {} THEN Len(s) ELSE SetMin(stops) - 1
         IN  <<Take(s, n)>> \o Tokens(Drop(s, n))

\* s without its first whitespace-delimited token, the rest one space apart
WithoutFirstToken(s) ==
    IF Tokens(s) = <<>> THEN <<>> ELSE StrJoin(<<" ">>, Tail(Tokens(s)))

\* C12: for every Flash match, the record's description is the captured
\* description with its first whitespace-delimited token removed and every
\* run of whitespace collapsed to one space, also when the capture starts
\* with whitespace or separates its tokens by other whitespace than a space.
C12_DescriptionDropsFirstToken ==
    (parse_ret.done /\ parse_ret.cls = "flash_benefits") =>
        \A i \in 1..Len(parse_ret.records) :
            parse_ret.records[i].description
                = WithoutFirstToken(parse_ret.groups[i].description)

\* the same for the captures that are tokens one space apart, with no
\* whitespace at either end
PlainCapture(s) == StrJoin(<<" ">>, Tokens(s)) = s

C12_PlainCaptures ==
    (parse_ret.done /\ parse_ret.cls = "flash_benefits") =>
        \A i \in 1..Len(parse_ret.records) :
            PlainCapture(parse_ret.groups[i].description) =>
                parse_ret.records[i].description
                    = WithoutFirstToken(parse_ret.groups[i].description)

\* the Flash half of the blob scan: FlashBenefitsParser alone does return
\* the records of the scan over the joined blob
C11_FlashOnly ==
    (parse_ret.done /\ parse_ret.cls = "flash_benefits") =>
        parse_ret.records = BlobRecords(parse_ret.cls, arg_lines)

(***************************************************************************)
(* Properties of to_df and of the repeated reads of parsed_text            *)
(***************************************************************************)
\* the records the parse of an instance yields: its images, formatted and
\* parsed
Records(self) ==
    Once(extract(self.images_path), LAMBDA r :
        IF r.exc # "none" THEN <<>>
        ELSE parse_text_lines(self, FormatImages(self, r.val)))

\* the rows that equal no earlier row, in their order
FirstOccurrences(rows) ==
    LET kept == {i \in 1..Len(rows) : \A j \in 1..(i - 1) : rows[j] # rows[i]}
    IN  [k \in 1..Cardinality(kept) |->
            rows[CHOOSE i \in kept : Cardinality({j \in kept : j <= i}) = k]]

\* to_df(drop_duplicates), called in this state, returns the table `rows`
\* and leaves the cache of parsed_text as it is
ToDfReturns(p, drop_duplicates, rows) ==
    Once(to_df(p, parsers[p], drop_duplicates, Memo), LAMBDA r :
        /\ r.exc = "none"
        /\ r.val = rows
        /\ Hit(parsed_text_cache, p) => r.memo.parsed_text = parsed_text_cache
        /\ Hit(r.memo.parsed_text, p))

\* C13: to_df never changes the cached parsed records: after any sequence
\* of calls, for an instance whose parse has succeeded, to_df(False) returns
\* one row per parsed record in parse order, to_df(True) returns these rows
\* with only the first occurrence of each fully equal row, in the same
\* order, and the cache of parsed_text holds the records of the parse.
C13_ToDfLeavesParsedRecords ==
    \A p \in ParserIds :
        (parsers[p].made /\ runs["parsed"][p] >= 1) =>
            Once(Records(parsers[p]), LAMBDA records :
                /\ Hit(parsed_text_cache, p) => parsed_text_cache.value = records
                /\ ToDfReturns(p, FALSE, records)
                /\ ToDfReturns(p, TRUE, FirstOccurrences(records)))

\* a to_df(drop_duplicates=True) has just dropped a duplicate row, and the
\* cache still holds every record
C13_Witness ==
    /\ outcome.op = "to_df" /\ outcome.exc = "none"
    /\ Hit(parsed_text_cache, outcome.parser)
    /\ outcome.n < Len(parsed_text_cache.value)
    /\ outcome.n = Len(FirstOccurrences(parsed_text_cache.value))

\* the parse of instance p has run and has never yielded a record
ZeroRecords(p) ==
    parsers[p].made /\ runs["parse"][p] >= 1 /\ runs["parsed"][p] = 0

\* a read r of parsed_text (or a to_df / to_csv call) on instance p, made in
\* this state, raises EmptyResults, having run parse_text_lines once more
\* and neither the OCR extraction nor the formatting
RaisesAgain(p, r) ==
    /\ r.exc = "EmptyResults"
    /\ r.parsed = 0
    /\ r.memo.runs["parse"][p] = runs["parse"][p] + 1
    /\ r.memo.runs["ocr"][p] = runs["ocr"][p]
    /\ r.memo.runs["format"][p] = runs["format"][p]

\* C14: the no-results outcome is not memoized: on an instance whose parse
\* yields zero records, every read of parsed_text and every to_df / to_csv
\* call raises EmptyResults again, each time re-running parse_text_lines on
\* the cached formatted lines and never re-running the OCR extraction or the
\* formatting for that instance.
C14_EmptyResultsRaisedAgainFromCachedLines ==
    \A p \in ParserIds :
        ZeroRecords(p) =>
            /\ RaisesAgain(p, parsed_text(p, parsers[p], Memo))
            /\ \A d \in BOOLEAN : RaisesAgain(p, to_df(p, parsers[p], d, Memo))

\* the same while the formatted lines of the instance are still cached, that
\* is, while no other instance has read input_text since
C14_WhileLinesAreCached ==
    \A p \in ParserIds :
        (ZeroRecords(p) /\ Hit(input_text_cache, p)) =>
            /\ RaisesAgain(p, parsed_text(p, parsers[p], Memo))
            /\ \A d \in BOOLEAN : RaisesAgain(p, to_df(p, parsers[p], d, Memo))

====
